---- MODULE Spec2Model ----
(***************************************************************************)
(* A model of the world-id-relay root synchronisation engine:              *)
(*   - BlockScanner::block_stream (src/src/block_scanner.rs), the windowed *)
(*     scan of the canonical chain;                                        *)
(*   - the broadcast channel of run() (src/src/main.rs), the dispatcher;   *)
(*   - EVMRelay::subscribe_roots (src/src/relay/mod.rs), one relay worker  *)
(*     per bridged network.                                                *)
(***************************************************************************)
EXTENDS Integers, Sequences, FiniteSets, TLC

VARIABLES
    \* ---- BlockScanner (block_scanner.rs) ----
    window_size,    \* BlockScanner.window_size
    start_block,    \* BlockScanner.start_block
    next_block,     \* first component of the unfold state
    latest,         \* second component of the unfold state (the known tip)
    spc,            \* where the unfold closure is suspended
    emitted,        \* the ranges yielded so far, in order (history)
    tipsSeen,       \* the heights get_block_number() has returned (history)
    \* ---- canonical chain and dispatcher (main.rs) ----
    l1Root,         \* latestRoot() of the identity manager on the canonical chain
    chainLog,       \* postRoot of every TreeChanged event on the chain, in order
    published,      \* every root handed to tx.send(), in order (history)
    chan,           \* the values the broadcast channel stored, in order
    \* ---- relay workers (relay/mod.rs), one per bridged network ----
    workers,        \* the relayers returned by init_relays
    failBudget,     \* how many propagate_root() failures the run may still see
    wpc,            \* where each subscribe_roots task is suspended
    cursor,         \* each Receiver's next position in the channel
    subAt,          \* Len(published) when the worker subscribed (history)
    rcvd,           \* the roots each worker received, in order (history)
    field,          \* `field`: the root being processed
    dest_latest,    \* `latest`: the destination root read for it
    total_retries,  \* `total_retries`
    calls,          \* propagate_root() calls issued for `field` (history)
    failures,       \* propagate_root() calls that failed for `field` (history)
    succeeded,      \* whether the last propagate_root() for `field` returned Ok
    \* ---- destination chains ----
    destRoot,       \* latestRoot() of each bridged WorldID
    bridge,         \* the root a landed propagateRoot() carries, until derived
    stored,         \* every root each bridged WorldID has held (history)
    \* ---- root_stream and scanner_fut (block_scanner.rs, main.rs) ----
    tip_backoff,    \* `backoff` of the retry() around get_block_number, in ms
    futs,           \* the future of each yielded range: its retry() state
    nyielded,       \* how many of them buffered() has handed to flat_map
    iter,           \* the decoded events of the current window, not yet sent
    \* ---- the process (main.rs) ----
    proc,           \* "Running" until run() returns or the main task panics
    threads,        \* worker threads of the runtime that run the spawned tasks
    \* ---- run() up to the select! (main.rs) ----
    cfg,            \* the Config handed to run(): wallets and bridged networks
    rpc,            \* where run() is
    \* ---- the signers (relay/signer.rs) ----
    sgn,            \* each worker's signer: where its propagate_root() call is
    txs,            \* the status of every transaction each signer submitted
    \* ---- telemetry (block_scanner.rs) ----
    gauge,          \* the last value set on the last_synced_block gauge
    \* ---- the helpers (utils.rs, tx_sitter.rs, transaction.rs) ----
    call            \* the helper call under study: its arguments and locals

scanVars == <<window_size, start_block, next_block, latest, spc, emitted,
              tipsSeen>>

chanVars == <<l1Root, chainLog, published, chan>>

workerVars == <<workers, failBudget, wpc, cursor, subAt, rcvd, field,
                dest_latest, total_retries, calls, failures, succeeded>>

destVars == <<destRoot, bridge, stored>>

relayVars == <<chanVars, workerVars, destVars>>

streamVars == <<tip_backoff, futs, nyielded, iter>>

sysVars == <<proc, threads>>

runVars == <<cfg, rpc>>

signerVars == <<sgn, txs>>

auxVars == <<runVars, signerVars, gauge, call>>

vars == <<scanVars, relayVars, streamVars, sysVars, auxVars>>

Min(a, b) == IF a <= b THEN a ELSE b

(***************************************************************************)
(* Bounds of the scanner model.                                            *)
(***************************************************************************)
MaxTip == 5
MaxWindow == 3
MaxStart == 2

\* The scenario of the specification's section 8: window_size 1000 (the
\* default of config.rs), start at block 100, tip 2500 and later heights.
Scenario == [window_size |-> 1000, start_block |-> 100, tip |-> 2500]

ScenarioTips == {Scenario.tip, Scenario.tip + 1, Scenario.tip + 1100}

ScanConfigs ==
    [window_size : 0..MaxWindow, start_block : 0..MaxStart]
        \cup {[window_size |-> Scenario.window_size,
               start_block |-> Scenario.start_block]}

IsScenario == window_size = Scenario.window_size /\ start_block = Scenario.start_block

\* The heights the provider may answer: any value, in any order.
TipValues == IF IsScenario THEN ScenarioTips ELSE 0..MaxTip

(***************************************************************************)
(* utils::retry(backoff, limit, f): call f; on Err give up if the backoff  *)
(* exceeds the limit, else sleep(backoff), double it and call again.       *)
(* Durations are in milliseconds.                                          *)
(***************************************************************************)
\* Duration::from_millis(100): the initial backoff of both retry() calls of
\* block_stream.
SCAN_RETRY_BACKOFF == 100

\* RetryLimit stands for their limit, Some(Duration::from_secs(60)), scaled
\* down so that a retry() gives up at its third failed call (backoff 400)
\* instead of its eleventh (backoff 102400).
RetryLimit == 300

\* if backoff > limit { return Err(e) }
RetryGivesUp_AtLimit(backoff, limit) == backoff >= limit
RetryGivesUp(backoff, limit) == backoff > limit

\* backoff *= 2
NextBackoff_Linear(backoff) == backoff + SCAN_RETRY_BACKOFF
NextBackoff(backoff) == backoff * 2

\* The future block_stream yields for a range: a retry() not yet polled.
NewFuture == [st |-> "Pending", backoff |-> SCAN_RETRY_BACKOFF,
              logs |-> <<>>, at |-> 0]

\* The gauge before gauge!("last_synced_block", ..).set(..) first runs.
NoGauge == 0 - 1

\* No helper is called on its own: retry() runs inside block_stream, and
\* the program calls neither monitor_tx nor wait_for_tx_receipt.
NoCall == [fn |-> "none"]

StreamStart ==
    /\ tip_backoff = SCAN_RETRY_BACKOFF
    /\ futs = <<>>
    /\ nyielded = 0
    /\ iter = <<>>
    /\ gauge = NoGauge

\* root_stream before its first poll.
StreamInit ==
    /\ StreamStart
    /\ call = NoCall

\* init_relays(config) takes the Config by value: once the relayers are
\* built, run() holds none.
MovedConfig == [wallet |-> "None", bridged |-> <<>>]

\* The process right after the tasks are spawned, with n worker threads:
\* run() is at its select!.
SysInit(n) ==
    /\ proc = "Running"
    /\ threads = n
    /\ rpc = "Select"
    /\ cfg = MovedConfig

(***************************************************************************)
(* block_stream: the pure parts of the closure.                            *)
(***************************************************************************)
\* let try_to = next_block + self.window_size;
TryTo_OffByOne(nb, ws) == nb + ws + 1
TryTo(nb, ws) == nb + ws

\* if try_to > latest { ... refresh ... }
NeedsRefresh(try_to, lt) == try_to > lt

\* latest = retry(...).await.expect(...): the height returned replaces the
\* cached one.
Refreshed_KeepMax(lt, h) == IF h > lt THEN h ELSE lt
Refreshed(lt, h) == h

\* if latest < next_block { sleep; continue }
TipBehind_Never(lt, nb) == FALSE
TipBehind(lt, nb) == lt < nb

\* break (try_to).min(latest)
ToBlock_NoClamp(try_to, lt) == try_to
ToBlock(try_to, lt) == Min(try_to, lt)

\* Some((fut, (to_block + 1, latest)))
NextCursor_Same(to_block) == to_block
NextCursor(to_block) == to_block + 1

\* The range handed to the filter, with the tip known when it was built.
Range(from, to, tip) == [fromBlock |-> from, toBlock |-> to, tip |-> tip]

\* The tail of one closure run: build the filter and yield the future.
Yield(lt) ==
    LET to_block == ToBlock(TryTo(next_block, window_size), lt) IN
    /\ emitted' = Append(emitted, Range(next_block, to_block, lt))
    /\ futs' = Append(futs, NewFuture)
    /\ next_block' = NextCursor(to_block)
    /\ latest' = lt
    /\ spc' = "Top"

\* The relay side when only the scanner is studied: no bridged network.
RelayIdle ==
    /\ l1Root = 0 /\ chainLog = <<>> /\ published = <<>> /\ chan = <<>>
    /\ workers = {} /\ failBudget = 0
    /\ wpc = <<>> /\ cursor = <<>> /\ subAt = <<>> /\ rcvd = <<>>
    /\ field = <<>> /\ dest_latest = <<>> /\ total_retries = <<>>
    /\ calls = <<>> /\ failures = <<>> /\ succeeded = <<>>
    /\ destRoot = <<>> /\ bridge = <<>> /\ stored = <<>>
    /\ sgn = <<>> /\ txs = <<>>

(***************************************************************************)
(* block_stream: the steps between suspension points.                      *)
(***************************************************************************)
InitScan ==
    /\ \E c \in ScanConfigs :
          /\ window_size = c.window_size
          /\ start_block = c.start_block
          /\ next_block = c.start_block
    /\ latest = 0
    /\ spc = "Top"
    /\ emitted = <<>>
    /\ tipsSeen = {}
    /\ RelayIdle
    /\ StreamInit
    /\ SysInit(0)

\* The closure starts (or loops): the cached tip suffices, or a query is made.
BlockStreamPoll ==
    /\ spc = "Top"
    /\ IF NeedsRefresh(TryTo(next_block, window_size), latest)
          THEN /\ spc' = "GetBlockNumber"
               /\ UNCHANGED <<next_block, latest, emitted, futs>>
          ELSE Yield(latest)
    /\ UNCHANGED <<window_size, start_block, tipsSeen, relayVars>>
    /\ UNCHANGED <<tip_backoff, nyielded, iter, sysVars, auxVars>>

\* get_block_number() returns Ok(h): so does retry(), and the next retry()
\* starts from the initial backoff again.
GetBlockNumberOk(h) ==
    /\ spc = "GetBlockNumber"
    /\ tipsSeen' = tipsSeen \cup {h}
    /\ tip_backoff' = SCAN_RETRY_BACKOFF
    /\ LET lt == Refreshed(latest, h) IN
          IF TipBehind(lt, next_block)
             THEN /\ latest' = lt
                  /\ spc' = "Sleep"
                  /\ UNCHANGED <<next_block, emitted, futs>>
             ELSE Yield(lt)
    /\ UNCHANGED <<window_size, start_block, relayVars>>
    /\ UNCHANGED <<nyielded, iter, sysVars, auxVars>>

\* get_block_number() returns Err: retry() sleeps, doubles the backoff and
\* calls again, or gives up, and then .expect() panics in the main task.
GetBlockNumberErr ==
    /\ spc = "GetBlockNumber"
    /\ IF RetryGivesUp(tip_backoff, RetryLimit)
          THEN /\ spc' = "Panicked"
               /\ proc' = "Exited"
               /\ UNCHANGED tip_backoff
          ELSE /\ tip_backoff' = NextBackoff(tip_backoff)
               /\ UNCHANGED <<spc, proc>>
    /\ UNCHANGED <<window_size, start_block, next_block, latest, emitted,
                   tipsSeen, relayVars>>
    /\ UNCHANGED <<futs, nyielded, iter, threads, auxVars>>

\* tokio::time::sleep(BLOCK_SCANNER_SLEEP_TIME) ends; continue.
ScannerSleepDone ==
    /\ spc = "Sleep"
    /\ spc' = "Top"
    /\ UNCHANGED <<window_size, start_block, next_block, latest, emitted,
                   tipsSeen, relayVars>>
    /\ UNCHANGED <<streamVars, sysVars, auxVars>>

NextScan ==
    \/ BlockStreamPoll
    \/ \E h \in TipValues : GetBlockNumberOk(h)
    \/ GetBlockNumberErr
    \/ ScannerSleepDone

SpecScan == InitScan /\ [][NextScan]_vars

(***************************************************************************)
(* Bounds of the relay model.  Capacity stands for the 1000 handed to      *)
(* broadcast::channel at main.rs:126, scaled down so that a receiver can   *)
(* fall behind by more than the buffer within MaxEvents events.  A run     *)
(* with one bridged network sees up to MaxEvents root changes, a run with  *)
(* two sees up to MaxEventsFanOut.                                         *)
(***************************************************************************)
MaxEvents == 3
MaxEventsFanOut == 2
MaxSignerFailures == 2
Capacity == 2

\* const MAX_RETRIES: u64 = 50;
MAX_RETRIES == 50

\* pub const RELAY_ROOT_RETRY_BACKOFF: Duration = Duration::from_millis(1000);
\* the argument of the sleep in the retry loop, in milliseconds, whatever
\* the number of failures so far.
RELAY_ROOT_RETRY_BACKOFF == 1000

\* Root values are only compared for equality: two values besides the
\* initial root 0.
Roots == {1, 2}

\* The scanner side when only the relay is studied.
ScannerIdle ==
    /\ window_size = 0 /\ start_block = 0 /\ next_block = 0 /\ latest = 0
    /\ spc = "Off" /\ emitted = <<>> /\ tipsSeen = {}

(***************************************************************************)
(* The dispatcher: tokio::sync::broadcast::channel::<U256>(1000).          *)
(* The channel rounds its capacity up to a power of two and keeps that     *)
(* many of the newest values; send() stores nothing and returns Err when   *)
(* no Receiver is alive; subscribe() starts a Receiver at the tail.        *)
(***************************************************************************)
NextPowerOfTwo(n) ==
    LET powers == {2 ^ k : k \in 0..n} IN
    CHOOSE p \in powers : p >= n /\ \A q \in powers : q >= n => p <= q

Slots == NextPowerOfTwo(Capacity)

\* The Receivers alive: a worker holds one from tx.subscribe() until
\* subscribe_roots returns.
Receivers == {w \in workers : wpc[w] \notin {"Spawned", "Terminated"}}

\* Number of tx.send() calls that returned Err ("Error sending root").
SendErrors == Len(published) - Len(chan)

\* Values sent to the channel that Receiver w has not yet received.
Lag(w) == Len(chan) + 1 - cursor[w]

\* recv() finds the value at its position overwritten: Err(Lagged).
Lagged(w) == Lag(w) > Slots

\* The value recv() returns otherwise.
RecvValue_Newest(w) == chan[Len(chan)]
RecvValue(w) == chan[cursor[w]]

EventBound == IF Cardinality(workers) > 1 THEN MaxEventsFanOut ELSE MaxEvents

\* An identity operation on the canonical chain: the root changes and a
\* TreeChanged(preRoot, kind, postRoot) log is emitted.
TreeChangedWithin(r, bound) ==
    /\ Len(chainLog) < bound
    /\ l1Root' = r
    /\ chainLog' = Append(chainLog, r)
    /\ UNCHANGED <<published, chan, workerVars, destVars, scanVars, streamVars, sysVars, auxVars>>

TreeChanged(r) == TreeChangedWithin(r, EventBound)

\* scanner_fut: for_each event of root_stream, tx.send(event.postRoot).
Publish_Blocking ==
    /\ Len(published) < Len(chainLog)
    /\ \A w \in Receivers : Lag(w) < Slots
    /\ LET postRoot == chainLog[Len(published) + 1] IN
          /\ published' = Append(published, postRoot)
          /\ chan' = IF Receivers = {} THEN chan ELSE Append(chan, postRoot)
    /\ UNCHANGED <<l1Root, chainLog, workerVars, destVars, scanVars, streamVars, sysVars, auxVars>>
Publish ==
    /\ Len(published) < Len(chainLog)
    /\ LET postRoot == chainLog[Len(published) + 1] IN
          /\ published' = Append(published, postRoot)
          /\ chan' = IF Receivers = {} THEN chan ELSE Append(chan, postRoot)
    /\ UNCHANGED <<l1Root, chainLog, workerVars, destVars, scanVars, streamVars, sysVars, auxVars>>

(***************************************************************************)
(* EVMRelay::subscribe_roots: the pure parts.                              *)
(***************************************************************************)
\* if latest != field
NeedsPropagation_Always(lt, f) == TRUE
NeedsPropagation(lt, f) == lt # f

\* while total_retries < MAX_RETRIES
RetryAgain_Inclusive(n) == n <= MAX_RETRIES
RetryAgain(n) == n < MAX_RETRIES

\* Ok(_) ends the match (or breaks out of the while loop): the cooldown
\* sleep follows.
PcAfterOk_NoBreak == "RetrySleep"
PcAfterOk == "Cooldown"

\* A negative budget never runs out.
CanFail == failBudget # 0
SpendFailure == IF failBudget > 0 THEN failBudget - 1 ELSE failBudget

\* A propagateRoot() transaction that lands on the canonical chain sends
\* the chain's latest root over the bridge (the call carries no root).
Landed(w, landed) ==
    bridge' = IF landed THEN [bridge EXCEPT ![w] = {l1Root}] ELSE bridge

\* A Signer on which propagate_root() has not been called yet: the variant
\* of the enum, where the current call is, the call of the worker it
\* answers (the number of the received root and of the call for it), the
\* seconds since `start`, the status polls and the submissions made by the
\* call, and the error it returns.
NewSigner(kind) ==
    [kind |-> kind, pc |-> "Idle", for |-> <<0, 0>>, elapsed |-> 0,
     polls |-> 0, sent |-> 0, err |-> "none"]

(***************************************************************************)
(* EVMRelay::subscribe_roots: the steps between suspension points.         *)
(***************************************************************************)
\* The spawned task is polled for the first time: tx.subscribe().
Subscribe(w) ==
    /\ wpc[w] = "Spawned"
    /\ wpc' = [wpc EXCEPT ![w] = "Recv"]
    /\ cursor' = [cursor EXCEPT ![w] = Len(chan) + 1]
    /\ subAt' = [subAt EXCEPT ![w] = Len(published)]
    /\ UNCHANGED <<workers, failBudget, rcvd, field, dest_latest,
                   total_retries, calls, failures, succeeded>>
    /\ UNCHANGED <<chanVars, destVars, scanVars, streamVars, sysVars, auxVars>>

\* let field = rx.recv().await?;
Recv(w) ==
    /\ wpc[w] = "Recv"
    /\ Lag(w) > 0
    /\ IF Lagged(w)
          THEN /\ wpc' = [wpc EXCEPT ![w] = "Terminated"]
               /\ UNCHANGED <<cursor, rcvd, field>>
          ELSE /\ wpc' = [wpc EXCEPT ![w] = "LatestRoot"]
               /\ field' = [field EXCEPT ![w] = RecvValue(w)]
               /\ rcvd' = [rcvd EXCEPT ![w] = Append(@, RecvValue(w))]
               /\ cursor' = [cursor EXCEPT ![w] = @ + 1]
    /\ UNCHANGED <<workers, failBudget, subAt, dest_latest, total_retries,
                   calls, failures, succeeded>>
    /\ UNCHANGED <<chanVars, destVars, scanVars, streamVars, sysVars, auxVars>>

\* The loop body ends: its locals go out of scope and recv() is awaited.
NextIteration(w) ==
    /\ wpc' = [wpc EXCEPT ![w] = "Recv"]
    /\ field' = [field EXCEPT ![w] = 0]
    /\ dest_latest' = [dest_latest EXCEPT ![w] = 0]
    /\ total_retries' = [total_retries EXCEPT ![w] = 0]
    /\ calls' = [calls EXCEPT ![w] = 0]
    /\ failures' = [failures EXCEPT ![w] = 0]
    /\ succeeded' = [succeeded EXCEPT ![w] = FALSE]

\* let latest = world_id.latestRoot().call().await?._0; if latest != field
LatestRootOk(w) ==
    /\ wpc[w] = "LatestRoot"
    /\ IF NeedsPropagation(destRoot[w], field[w])
          THEN /\ dest_latest' = [dest_latest EXCEPT ![w] = destRoot[w]]
               /\ wpc' = [wpc EXCEPT ![w] = "Propagate"]
               /\ calls' = [calls EXCEPT ![w] = @ + 1]
               /\ UNCHANGED <<field, total_retries, failures, succeeded>>
          ELSE NextIteration(w)
    /\ UNCHANGED <<workers, failBudget, cursor, subAt, rcvd>>
    /\ UNCHANGED <<chanVars, destVars, scanVars, streamVars, sysVars, auxVars>>

\* The latestRoot() call fails: `?` returns the error from subscribe_roots.
LatestRootErr(w) ==
    /\ wpc[w] = "LatestRoot"
    /\ wpc' = [wpc EXCEPT ![w] = "Terminated"]
    /\ UNCHANGED <<workers, failBudget, cursor, subAt, rcvd, field,
                   dest_latest, total_retries, calls, failures, succeeded>>
    /\ UNCHANGED <<chanVars, destVars, scanVars, streamVars, sysVars, auxVars>>

\* match propagate_root().await { Ok(_) => ... } and on to the cooldown.
PropagateOk(w, landed) ==
    /\ wpc[w] = "Propagate"
    /\ succeeded' = [succeeded EXCEPT ![w] = TRUE]
    /\ wpc' = [wpc EXCEPT ![w] = PcAfterOk]
    /\ Landed(w, landed)
    /\ UNCHANGED <<workers, failBudget, cursor, subAt, rcvd, field,
                   dest_latest, total_retries, calls, failures>>
    /\ UNCHANGED <<chanVars, destRoot, stored, scanVars, streamVars, sysVars, auxVars>>

\* Err(e) => { let mut total_retries = 0; while total_retries < MAX_RETRIES {
\*     match propagate_root().await {
PropagateErr(w, landed) ==
    /\ wpc[w] = "Propagate"
    /\ CanFail
    /\ failBudget' = SpendFailure
    /\ failures' = [failures EXCEPT ![w] = @ + 1]
    /\ total_retries' = [total_retries EXCEPT ![w] = 0]
    /\ IF RetryAgain(0)
          THEN /\ wpc' = [wpc EXCEPT ![w] = "Retry"]
               /\ calls' = [calls EXCEPT ![w] = @ + 1]
          ELSE /\ wpc' = [wpc EXCEPT ![w] = "Cooldown"]
               /\ calls' = calls
    /\ Landed(w, landed)
    /\ UNCHANGED <<workers, cursor, subAt, rcvd, field, dest_latest, succeeded>>
    /\ UNCHANGED <<chanVars, destRoot, stored, scanVars, streamVars, sysVars, auxVars>>

\* Ok(_) => { break; } and on to the cooldown.
RetryOk(w, landed) ==
    /\ wpc[w] = "Retry"
    /\ succeeded' = [succeeded EXCEPT ![w] = TRUE]
    /\ wpc' = [wpc EXCEPT ![w] = PcAfterOk]
    /\ Landed(w, landed)
    /\ UNCHANGED <<workers, failBudget, cursor, subAt, rcvd, field,
                   dest_latest, total_retries, calls, failures>>
    /\ UNCHANGED <<chanVars, destRoot, stored, scanVars, streamVars, sysVars, auxVars>>

\* Err(e) => { total_retries += 1; sleep(RELAY_ROOT_RETRY_BACKOFF).await }
RetryErr(w, landed) ==
    /\ wpc[w] = "Retry"
    /\ CanFail
    /\ failBudget' = SpendFailure
    /\ failures' = [failures EXCEPT ![w] = @ + 1]
    /\ total_retries' = [total_retries EXCEPT ![w] = @ + 1]
    /\ wpc' = [wpc EXCEPT ![w] = "RetrySleep"]
    /\ Landed(w, landed)
    /\ UNCHANGED <<workers, cursor, subAt, rcvd, field, dest_latest, calls,
                   succeeded>>
    /\ UNCHANGED <<chanVars, destRoot, stored, scanVars, streamVars, sysVars, auxVars>>

\* The backoff sleep ends: the while condition, then the next call or the
\* end of the loop and on to the cooldown.
RetrySleepDone(w) ==
    /\ wpc[w] = "RetrySleep"
    /\ IF RetryAgain(total_retries[w])
          THEN /\ wpc' = [wpc EXCEPT ![w] = "Retry"]
               /\ calls' = [calls EXCEPT ![w] = @ + 1]
          ELSE /\ wpc' = [wpc EXCEPT ![w] = "Cooldown"]
               /\ calls' = calls
    /\ UNCHANGED <<workers, failBudget, cursor, subAt, rcvd, field,
                   dest_latest, total_retries, failures, succeeded>>
    /\ UNCHANGED <<chanVars, destVars, scanVars, streamVars, sysVars, auxVars>>

\* std::thread::sleep(ROOT_PROPAGATION_BACKOFF) returns; back to recv().
CooldownDone(w) ==
    /\ wpc[w] = "Cooldown"
    /\ NextIteration(w)
    /\ UNCHANGED <<workers, failBudget, cursor, subAt, rcvd>>
    /\ UNCHANGED <<chanVars, destVars, scanVars, streamVars, sysVars, auxVars>>

\* The bridged WorldID derives the message: receiveRoot(newRoot).
Derive(w) ==
    /\ bridge[w] # {}
    /\ destRoot' = [destRoot EXCEPT ![w] = CHOOSE r \in bridge[w] : TRUE]
    /\ stored' = [stored EXCEPT ![w] = @ \cup bridge[w]]
    /\ bridge' = [bridge EXCEPT ![w] = {}]
    /\ UNCHANGED <<chanVars, workerVars, scanVars, streamVars, sysVars, auxVars>>

\* The spawn loop of run(): one task per relayer, none polled yet.  kinds
\* gives the Signer variant of each relayer.
Spawned(ws, budget, kinds) ==
    /\ workers = ws
    /\ failBudget = budget
    /\ wpc = [w \in ws |-> "Spawned"]
    /\ cursor = [w \in ws |-> 1]
    /\ subAt = [w \in ws |-> 0]
    /\ rcvd = [w \in ws |-> <<>>]
    /\ field = [w \in ws |-> 0]
    /\ dest_latest = [w \in ws |-> 0]
    /\ total_retries = [w \in ws |-> 0]
    /\ calls = [w \in ws |-> 0]
    /\ failures = [w \in ws |-> 0]
    /\ succeeded = [w \in ws |-> FALSE]
    /\ destRoot = [w \in ws |-> 0]
    /\ bridge = [w \in ws |-> {}]
    /\ stored = [w \in ws |-> {0}]
    /\ sgn = [w \in ws |-> NewSigner(kinds[w])]
    /\ txs = [w \in ws |-> <<>>]

\* The relay side after init_relays and the spawn loop, with no root
\* changed or published yet.
RelayInitWith(ws, budget, kinds) ==
    /\ l1Root = 0 /\ chainLog = <<>> /\ published = <<>> /\ chan = <<>>
    /\ Spawned(ws, budget, kinds)

RelayInit(ws, budget) ==
    RelayInitWith(ws, budget, [w \in ws |-> "AlloySigner"])

InitRelay(ws, budget) ==
    /\ ScannerIdle
    /\ StreamInit
    /\ SysInit(Cardinality(ws))
    /\ RelayInit(ws, budget)

\* run() with one or with two bridged networks.
WorkerSets == {{1}, {1, 2}}

Init == \E ws \in WorkerSets : InitRelay(ws, MaxSignerFailures)

\* One bridged network whose signer may fail without limit.
InitRetry == InitRelay({1}, 0 - 1)

Next ==
    \/ \E r \in Roots : TreeChanged(r)
    \/ Publish
    \/ \E w \in workers : Subscribe(w)
    \/ \E w \in workers : Recv(w)
    \/ \E w \in workers : LatestRootOk(w)
    \/ \E w \in workers : LatestRootErr(w)
    \/ \E w \in workers, landed \in BOOLEAN : PropagateOk(w, landed)
    \/ \E w \in workers, landed \in BOOLEAN : PropagateErr(w, landed)
    \/ \E w \in workers, landed \in BOOLEAN : RetryOk(w, landed)
    \/ \E w \in workers, landed \in BOOLEAN : RetryErr(w, landed)
    \/ \E w \in workers : RetrySleepDone(w)
    \/ \E w \in workers : CooldownDone(w)
    \/ \E w \in workers : Derive(w)

Spec == Init /\ [][Next]_vars

SpecRetry == InitRetry /\ [][Next]_vars

(***************************************************************************)
(* Fan-out: two bridged networks, of which only the one in Consumers polls *)
(* its Receiver; the other subscribes and then never calls recv().         *)
(***************************************************************************)
Consumers == {1}

InitFanOut == InitRelay({1, 2}, MaxSignerFailures)

NextFanOut ==
    \/ \E r \in Roots : TreeChangedWithin(r, MaxEvents)
    \/ Publish
    \/ \E w \in workers : Subscribe(w)
    \/ \E w \in Consumers : Recv(w)
    \/ \E w \in Consumers : LatestRootOk(w)
    \/ \E w \in Consumers : LatestRootErr(w)
    \/ \E w \in Consumers, landed \in BOOLEAN : PropagateOk(w, landed)
    \/ \E w \in Consumers, landed \in BOOLEAN : PropagateErr(w, landed)
    \/ \E w \in Consumers, landed \in BOOLEAN : RetryOk(w, landed)
    \/ \E w \in Consumers, landed \in BOOLEAN : RetryErr(w, landed)
    \/ \E w \in Consumers : RetrySleepDone(w)
    \/ \E w \in Consumers : CooldownDone(w)
    \/ \E w \in Consumers : Derive(w)

SpecFanOut == InitFanOut /\ [][NextFanOut]_vars

(***************************************************************************)
(* The process: run() ends in select! over scanner_fut and                 *)
(* joinset.join_all().  The main task runs scanner_fut on the thread that  *)
(* called block_on; the spawned relay tasks run on the worker threads of   *)
(* the runtime, and a task inside std::thread::sleep keeps its thread.     *)
(***************************************************************************)
MaxThreads == 2

\* std::thread::sleep(ROOT_PROPAGATION_BACKOFF): the thread is not given
\* back to the runtime while the worker cools down.
Blocking(w) == wpc[w] = "Cooldown"

\* A spawned task is polled only by a worker thread that is not held by
\* another task.
CanRun(w) ==
    /\ proc = "Running"
    /\ Cardinality({v \in workers \ {w} : Blocking(v)}) < threads

\* join_all() returns once every task of the JoinSet has returned.
AllJoined_Any == \E w \in workers : wpc[w] = "Terminated"
AllJoined == \A w \in workers : wpc[w] = "Terminated"

\* _ = joinset.join_all() => "Relayer task failed"; run() returns Ok(()).
JoinAllReturns ==
    /\ proc = "Running"
    /\ AllJoined
    /\ proc' = "Exited"
    /\ UNCHANGED <<threads, scanVars, relayVars, streamVars, auxVars>>

\* scanner_fut panics (the .expect() of block_stream or the unwrap() of
\* root_stream after retry() gave up): the main task unwinds.
ScannerPanics ==
    /\ proc = "Running"
    /\ spc' = "Panicked"
    /\ proc' = "Exited"
    /\ UNCHANGED <<window_size, start_block, next_block, latest, emitted,
                   tipsSeen, threads, relayVars, streamVars, auxVars>>

\* run() with one or two bridged networks on one or more worker threads;
\* the signer may fail in the runs with one network.
InitRun ==
    \E ws \in WorkerSets, n \in 1..MaxThreads :
        /\ ScannerIdle
        /\ StreamInit
        /\ SysInit(n)
        /\ RelayInit(ws, IF Cardinality(ws) > 1 THEN 0 ELSE MaxSignerFailures)

NextRun ==
    \/ \E r \in Roots : TreeChanged(r)
    \/ proc = "Running" /\ Publish
    \/ ScannerPanics
    \/ JoinAllReturns
    \/ \E w \in workers : CanRun(w) /\ Subscribe(w)
    \/ \E w \in workers : CanRun(w) /\ Recv(w)
    \/ \E w \in workers : CanRun(w) /\ LatestRootOk(w)
    \/ \E w \in workers : CanRun(w) /\ LatestRootErr(w)
    \/ \E w \in workers, landed \in BOOLEAN : CanRun(w) /\ PropagateOk(w, landed)
    \/ \E w \in workers, landed \in BOOLEAN : CanRun(w) /\ PropagateErr(w, landed)
    \/ \E w \in workers, landed \in BOOLEAN : CanRun(w) /\ RetryOk(w, landed)
    \/ \E w \in workers, landed \in BOOLEAN : CanRun(w) /\ RetryErr(w, landed)
    \/ \E w \in workers : CanRun(w) /\ RetrySleepDone(w)
    \/ \E w \in workers : proc = "Running" /\ CooldownDone(w)
    \/ \E w \in workers : Derive(w)

SpecRun == InitRun /\ [][NextRun]_vars

(***************************************************************************)
(* root_stream and scanner_fut: block_stream().buffered(10), the decoding  *)
(* flat_map and the for_each that sends every event's postRoot.            *)
(* BufferSize stands for the 10 of buffered(10), scaled down so that the   *)
(* buffer fills with the windows of a short chain.                         *)
(***************************************************************************)
BufferSize == 2

\* A log the filter matched: either it decodes as TreeChanged with the
\* given postRoot, or decode_log fails on it.
Junk == [decodes |-> FALSE, postRoot |-> 0]
Ev(r) == [decodes |-> TRUE, postRoot |-> r]

\* What get_logs may return for a range.
LogLists == {<<>>, <<Ev(1), Ev(2)>>, <<Junk, Ev(2)>>}

\* logs.into_iter().filter_map(|log| decode_log(..).ok().map(|l| l.data))
DecodeLogs_StopAtJunk(logs) ==
    LET bad == {k \in 1..Len(logs) : ~logs[k].decodes}
        n == IF bad = {} THEN Len(logs)
                         ELSE (CHOOSE k \in bad : \A j \in bad : k <= j) - 1
    IN  [k \in 1..n |-> [postRoot |-> logs[k].postRoot]]
DecodeLogs_KeepAll(logs) == [k \in 1..Len(logs) |-> [postRoot |-> logs[k].postRoot]]
RECURSIVE DecodeLogs(_)
DecodeLogs(logs) ==
    IF logs = <<>> THEN <<>>
    ELSE (IF Head(logs).decodes THEN <<[postRoot |-> Head(logs).postRoot]>>
                                ELSE <<>>)
         \o DecodeLogs(Tail(logs))

\* The futures buffered() holds: yielded by block_stream, output not yet
\* handed on.
InFlight == (nyielded + 1)..Len(futs)

\* buffered() polls block_stream only while it holds fewer than its limit.
HasRoom == Len(futs) - nyielded < BufferSize

\* FuturesOrdered hands the outputs on in the order the futures were
\* pushed: the next one is that of the oldest future it holds.
NextOutput_Newest == Len(futs)
NextOutput == nyielded + 1

\* How many futures have completed so far.
Completed == Cardinality({i \in 1..Len(futs) : futs[i].st # "Pending"})

\* flat_map polls buffered() only when its inner stream is exhausted, and
\* buffered() polls block_stream only while it holds fewer than its limit.
PollsBlockStream == iter = <<>> /\ HasRoom

\* buffered() polls its futures only when flat_map polls it and the output
\* of the oldest future is not already waiting.
PollsFutures ==
    /\ iter = <<>>
    /\ nyielded < Len(futs)
    /\ futs[NextOutput].st = "Pending"

\* let last_synced_block = next_block: the value the future of the i-th
\* range sets on the gauge is the first block of that range.
LastSyncedBlock(i) == emitted[i].fromBlock

\* provider.get_logs(&filter) returns Ok(logs): the gauge is set and
\* retry() returns Ok(logs) too.  The output of the oldest future goes to
\* flat_map in the same poll, where its decoded events become the inner
\* stream; another one's output waits.
GetLogsOk(i, logs) ==
    /\ proc = "Running"
    /\ PollsFutures
    /\ i \in InFlight
    /\ futs[i].st = "Pending"
    /\ futs' = [futs EXCEPT ![i] = [@ EXCEPT !.st = "Ok", !.logs = logs,
                                             !.at = Completed + 1]]
    /\ gauge' = LastSyncedBlock(i)
    /\ IF i = NextOutput
          THEN /\ iter' = DecodeLogs(logs)
               /\ nyielded' = nyielded + 1
          ELSE UNCHANGED <<iter, nyielded>>
    /\ UNCHANGED <<tip_backoff, scanVars, relayVars, sysVars, runVars,
                   signerVars, call>>

\* provider.get_logs(&filter) returns Err: retry() sleeps, doubles the
\* backoff and calls again, or gives up and the future's output is Err,
\* on which logs.unwrap() panics as soon as it is the oldest future's.
GetLogsErr(i) ==
    /\ proc = "Running"
    /\ PollsFutures
    /\ i \in InFlight
    /\ futs[i].st = "Pending"
    /\ IF RetryGivesUp(futs[i].backoff, RetryLimit)
          THEN /\ futs' = [futs EXCEPT ![i] = [@ EXCEPT !.st = "Err",
                                                       !.at = Completed + 1]]
               /\ IF i = NextOutput
                     THEN spc' = "Panicked" /\ proc' = "Exited"
                     ELSE UNCHANGED <<spc, proc>>
          ELSE /\ futs' = [futs EXCEPT ![i] =
                             [@ EXCEPT !.backoff = NextBackoff(@)]]
               /\ UNCHANGED <<spc, proc>>
    /\ UNCHANGED <<window_size, start_block, next_block, latest, emitted,
                   tipsSeen, tip_backoff, nyielded, iter, threads, relayVars,
                   auxVars>>

\* The inner stream is exhausted and the output of the oldest future is
\* waiting: buffered() hands it to flat_map, where logs.unwrap() panics on
\* Err and the decoded events of Ok(logs) become the inner stream.
BufferedNext ==
    /\ proc = "Running"
    /\ iter = <<>>
    /\ nyielded < Len(futs)
    /\ futs[NextOutput].st # "Pending"
    /\ IF futs[NextOutput].st = "Ok"
          THEN /\ iter' = DecodeLogs(futs[NextOutput].logs)
               /\ nyielded' = nyielded + 1
               /\ UNCHANGED <<spc, proc>>
          ELSE /\ spc' = "Panicked"
               /\ proc' = "Exited"
               /\ UNCHANGED <<iter, nyielded>>
    /\ UNCHANGED <<window_size, start_block, next_block, latest, emitted,
                   tipsSeen, tip_backoff, futs, threads, relayVars, auxVars>>

\* for_each: let field = event.postRoot; tx.send(field), an error of which
\* is only logged.
ForEachSend ==
    /\ proc = "Running"
    /\ iter # <<>>
    /\ LET postRoot == Head(iter).postRoot IN
          /\ published' = Append(published, postRoot)
          /\ chan' = IF Receivers = {} THEN chan ELSE Append(chan, postRoot)
    /\ iter' = Tail(iter)
    /\ UNCHANGED <<l1Root, chainLog, workerVars, destVars, scanVars,
                   tip_backoff, futs, nyielded, sysVars, auxVars>>

\* The scanner of the stream model: windows of two blocks from block 0,
\* a provider whose height stays one below MaxTip.
StreamConfig == [window_size |-> 1, start_block |-> 0]

StreamTips == {MaxTip - 1}

\* run() with one bridged network whose task has not been polled yet.
InitStream ==
    /\ window_size = StreamConfig.window_size
    /\ start_block = StreamConfig.start_block
    /\ next_block = StreamConfig.start_block
    /\ latest = 0
    /\ spc = "Top"
    /\ emitted = <<>>
    /\ tipsSeen = {}
    /\ StreamInit
    /\ SysInit(1)
    /\ RelayInit({1}, 0)

NextStream ==
    \/ PollsBlockStream /\ BlockStreamPoll
    \/ \E h \in StreamTips : PollsBlockStream /\ GetBlockNumberOk(h)
    \/ PollsBlockStream /\ GetBlockNumberErr
    \/ PollsBlockStream /\ ScannerSleepDone
    \/ \E i \in 1..Len(futs), logs \in LogLists : GetLogsOk(i, logs)
    \/ \E i \in 1..Len(futs) : GetLogsErr(i)
    \/ BufferedNext
    \/ ForEachSend

SpecStream == InitStream /\ [][NextStream]_vars

(***************************************************************************)
(* Claims about block_stream, checked under SpecScan.                      *)
(***************************************************************************)
RangesContiguous ==
    \A i \in 1..Len(emitted) :
        /\ emitted[i].fromBlock <= emitted[i].toBlock
        /\ i = 1 => emitted[i].fromBlock = start_block
        /\ i > 1 => /\ emitted[i].fromBlock = emitted[i - 1].toBlock + 1
                    /\ emitted[i].fromBlock > emitted[i - 1].fromBlock
                    /\ emitted[i].toBlock > emitted[i - 1].toBlock

\* C2 (window monotonicity): the ranges yielded by block_stream are
\* contiguous (each fromBlock is the previous toBlock + 1), non-overlapping
\* and strictly increasing, each has fromBlock <= toBlock, and the cursor
\* next_block never decreases, whatever heights the provider returns.
C2_WindowMonotonicity ==
    /\ [](RangesContiguous)
    /\ [][next_block' >= next_block]_vars

\* C2 witness: three ranges were yielded while the provider returned
\* different heights, one of them below the cursor.
C2_Witness ==
    /\ Len(emitted) >= 3
    /\ \E h \in tipsSeen : h < next_block - 1
    /\ Cardinality(tipsSeen) >= 2

\* C3 as stated (strict bound): toBlock - fromBlock < window_size for every
\* range and every window_size >= 1.
C3_WidthStrict ==
    window_size >= 1 =>
        \A i \in 1..Len(emitted) :
            emitted[i].toBlock - emitted[i].fromBlock < window_size

\* C3 amended (window width bound): toBlock - fromBlock <= window_size for
\* every range; a range holds at most window_size + 1 blocks.
C3_WidthBound ==
    \A i \in 1..Len(emitted) :
        emitted[i].toBlock - emitted[i].fromBlock <= window_size

\* C3 witness: a range of exactly window_size + 1 blocks, window_size >= 1.
C3_Witness ==
    /\ window_size >= 1
    /\ \E i \in 1..Len(emitted) :
          emitted[i].toBlock - emitted[i].fromBlock = window_size

\* C4 (tip back-pressure): when the height returned by the provider is
\* below next_block, the scanner neither advances next_block nor yields a
\* range; it sleeps, then queries the height again; a range is yielded only
\* with a known tip >= its fromBlock.
C4_TipBackPressure ==
    /\ [][(spc = "GetBlockNumber" /\ spc' \notin {"GetBlockNumber", "Panicked"}
                /\ latest' < next_block)
            => (next_block' = next_block /\ emitted' = emitted /\ spc' = "Sleep")]_vars
    /\ [][spc = "Sleep"
            => (next_block' = next_block /\ emitted' = emitted /\ spc' = "Top")]_vars
    /\ [][(spc = "Top" /\ latest < next_block)
            => (next_block' = next_block /\ emitted' = emitted
                /\ spc' = "GetBlockNumber")]_vars
    /\ [][emitted' # emitted => latest' >= next_block]_vars

\* C4 witness: after a range was yielded the provider returned a height
\* below the cursor and the scanner is in its poll sleep.
C4_Witness ==
    /\ spc = "Sleep"
    /\ emitted # <<>>
    /\ latest < next_block

ScenarioRanges ==
    <<<<100, 1100>>, <<1101, 2101>>, <<2102, 2500>>>>

EmittedPairs == [i \in 1..Len(emitted) |-> <<emitted[i].fromBlock, emitted[i].toBlock>>]

\* C5 (range computation): every range is
\* [next_block, min(next_block + window_size, known tip)], so toBlock never
\* exceeds the known tip, which is a height the provider returned (or the
\* initial 0); with window_size 1000, start 100 and the provider always
\* answering 2500 the ranges are [100,1100], [1101,2101], [2102,2500] and
\* then nothing until a higher tip is returned.
C5_RangeComputation ==
    /\ \A i \in 1..Len(emitted) :
          /\ emitted[i].toBlock =
                Min(emitted[i].fromBlock + window_size, emitted[i].tip)
          /\ emitted[i].toBlock <= emitted[i].tip
          /\ emitted[i].tip \in tipsSeen \cup {0}
    /\ (IsScenario /\ tipsSeen \subseteq {Scenario.tip}) =>
          /\ Len(emitted) <= Len(ScenarioRanges)
          /\ EmittedPairs = SubSeq(ScenarioRanges, 1, Len(emitted))
          /\ spc = "Sleep" => Len(emitted) = Len(ScenarioRanges)

\* C5 witness: the scenario, all three ranges yielded, the scanner waiting
\* for the tip to pass 2500.
C5_Witness ==
    /\ IsScenario
    /\ tipsSeen = {Scenario.tip}
    /\ EmittedPairs = ScenarioRanges
    /\ spc = "Sleep"

(***************************************************************************)
(* Claims about the dispatcher and the relay workers, checked under Spec   *)
(* (one or two bridged networks, a bounded number of signer failures) or   *)
(* under SpecRetry (one bridged network, a signer that may always fail).   *)
(***************************************************************************)
\* C1 (end-to-end liveness), in the form a finite run refutes: a worker
\* that has terminated makes no further call, so with no bridge message
\* left its destination keeps its root for good; if every decoded root
\* eventually reaches every destination, each published root has by then
\* been held by that destination.
C1_EveryRootReachesDestination ==
    \A w \in workers :
        (wpc[w] = "Terminated" /\ bridge[w] = {}) =>
            \A i \in 1..Len(published) : published[i] \in stored[w]

\* C6 (idempotent propagation): a propagate_root() call is only ever issued
\* for a root that differed from the destination root read for it; when the
\* read equals the received root the worker goes straight back to recv()
\* with no call issued and no cooldown.
C6_IdempotentPropagation ==
    /\ [](\A w \in workers : calls[w] > 0 => dest_latest[w] # field[w])
    /\ [][\A w \in workers :
            (wpc[w] = "LatestRoot" /\ wpc'[w] \notin {"LatestRoot", "Terminated"}
                /\ destRoot[w] = field[w])
            => (wpc'[w] = "Recv" /\ calls'[w] = 0 /\ bridge'[w] = bridge[w])]_vars

\* C6 witness: a worker is about to read a destination root equal to the
\* root it just received (its second one, after an earlier propagation).
C6_Witness ==
    \E w \in workers :
        /\ wpc[w] = "LatestRoot"
        /\ Len(rcvd[w]) >= 2
        /\ destRoot[w] = field[w]

\* The loop over propagate_root() has ended without any call succeeding.
AllFailed(w) == wpc[w] = "Cooldown" /\ ~succeeded[w]

C8_ExhaustionTerminates ==
    \A w \in workers :
        failures[w] > MAX_RETRIES => wpc[w] \in {"RetrySleep", "Terminated"}

\* C9 (stop at first success, then cooldown): a call that returns Ok is the
\* last one for its root, so k - 1 failures followed by a success make
\* exactly k calls (k <= 51); the worker is then in the cooldown, and while
\* it is, it issues no call, whatever is published meanwhile; it leaves the
\* cooldown only to wait for the next root.
C9_StopAtFirstSuccess ==
    /\ [](\A w \in workers :
            succeeded[w] => /\ wpc[w] = "Cooldown"
                            /\ calls[w] = failures[w] + 1
                            /\ calls[w] <= MAX_RETRIES + 1)
    /\ [][\A w \in workers :
            wpc[w] = "Cooldown" =>
                \/ wpc'[w] = "Cooldown" /\ calls'[w] = calls[w]
                \/ wpc'[w] = "Recv" /\ calls'[w] = 0]_vars

\* C9 witness: the third call succeeded after two failures, the worker is
\* cooling down and the same root has been published again meanwhile.
C9_Witness ==
    \E w \in workers :
        /\ wpc[w] = "Cooldown" /\ succeeded[w]
        /\ calls[w] = 3 /\ failures[w] = 2
        /\ Lag(w) > 0 /\ chan[cursor[w]] = field[w]

C11_LagKeepsRunning ==
    [][\A w \in workers :
        (wpc[w] = "Recv" /\ Lagged(w)) => wpc'[w] # "Terminated"]_vars

\* C16 (destination read is retried): the read of latestRoot() is issued
\* once per received root, so a worker that leaves the read for good has
\* seen exactly one failure; if a failed read is retried, the first failure
\* never terminates the worker.
C16_ReadFailureRetried ==
    [][\A w \in workers :
        wpc[w] = "LatestRoot" => wpc'[w] # "Terminated"]_vars

\* C18 (cooldown only after success): a worker is in the post-propagation
\* cooldown if and only if a propagate_root() call for the current root
\* returned Ok; in particular not after every attempt has failed.
C18_CooldownIffSuccess ==
    \A w \in workers : wpc[w] = "Cooldown" <=> succeeded[w]

\* The delay the policy {min_delay = 10 ms, doubling, max_delay = 300 s}
\* puts after the k-th failed attempt, in milliseconds.
RECURSIVE PolicyDelay(_)
PolicyDelay(k) == IF k <= 1 THEN 10 ELSE Min(2 * PolicyDelay(k - 1), 300000)

\* C19 (propagation backoff schedule): every failed propagate_root() call,
\* the first included, is followed by a wait before the next call, and the
\* wait after the k-th failure is min(10 ms * 2^(k-1), 300 s).
C19_BackoffSchedule ==
    /\ [][\A w \in workers :
            failures'[w] > failures[w] => wpc'[w] = "RetrySleep"]_vars
    /\ [](\A w \in workers :
            wpc[w] = "RetrySleep" =>
                RELAY_ROOT_RETRY_BACKOFF = PolicyDelay(failures[w]))

(***************************************************************************)
(* Claims about the fan-out of the dispatcher, checked under SpecFanOut.   *)
(***************************************************************************)
\* C12 (fan-out independence): a send is possible whenever the scanner has
\* an event to send, however far a subscriber is behind; and the consuming
\* subscriber receives every root published since it subscribed, in order:
\* each recv() returns the oldest root it has not received, and when none
\* is waiting for it, it has received them all.
C12_FanOutIndependence ==
    /\ [](Len(published) < Len(chainLog) => ENABLED Publish)
    /\ [](\A w \in Consumers :
            (w \in Receivers /\ Lag(w) = 0) =>
                rcvd[w] = SubSeq(published, subAt[w] + 1, Len(published)))
    /\ [][\A w \in Consumers :
            (wpc[w] = "Recv" /\ wpc'[w] = "LatestRoot") =>
                field'[w] = published[subAt[w] + Len(rcvd[w]) + 1]]_vars

\* C12 witness: the subscriber that does not consume is behind by more
\* than the buffer holds, and the consuming one has received all three
\* published roots.
C12_Witness ==
    /\ wpc[2] = "Recv" /\ Lag(2) > Slots
    /\ subAt[1] = 0 /\ Len(published) = MaxEvents
    /\ rcvd[1] = published

(***************************************************************************)
(* Claims about the process, checked under SpecRun.                        *)
(***************************************************************************)
\* What a relay task holds.
WorkerState(w) ==
    <<wpc[w], cursor[w], rcvd[w], field[w], dest_latest[w], total_retries[w],
      calls[w], failures[w], succeeded[w]>>

\* The step in which one worker terminates leaves every other worker as it
\* was and the process running.
TerminationIsLocal ==
    [][\A w \in workers :
        (wpc[w] # "Terminated" /\ wpc'[w] = "Terminated") =>
            /\ proc' = "Running"
            /\ \A v \in workers \ {w} : WorkerState(v)' = WorkerState(v)]_vars

C17_CooperativeWaits ==
    \A w \in workers : proc = "Running" => CanRun(w)

(***************************************************************************)
(* Claims about root_stream and scanner_fut, checked under SpecStream.     *)
(***************************************************************************)
\* The postRoots of the logs of one query result that decode, in log order.
ConfirmedRoots(logs) ==
    LET ok == SelectSeq(logs, LAMBDA l : l.decodes) IN
    [k \in 1..Len(ok) |-> ok[k].postRoot]

IterRoots == [k \in 1..Len(iter) |-> iter[k].postRoot]

\* C13 (only confirmed roots, once each, in order): events enter the inner
\* stream only as the decoded logs of a successful query, all of them and
\* in log order; every send takes the first event not yet sent, sends its
\* postRoot and removes it; so every published root is a confirmed one.
C13_OnlyConfirmedRootsOnce ==
    /\ [][iter' # iter =>
            \/ /\ iter = <<>>
               /\ nyielded' = nyielded + 1
               /\ futs'[nyielded'].st = "Ok"
               /\ IterRoots' = ConfirmedRoots(futs'[nyielded'].logs)
               /\ published' = published
            \/ /\ iter # <<>>
               /\ iter' = Tail(iter)
               /\ published' = Append(published, Head(iter).postRoot)
               /\ nyielded' = nyielded]_vars
    /\ [][published' # published => iter' # iter]_vars
    /\ [](\A k \in 1..Len(published) :
            \E i \in 1..nyielded : \E j \in 1..Len(futs[i].logs) :
                futs[i].logs[j].decodes /\ futs[i].logs[j].postRoot = published[k])

\* C13 witness: a window whose query returned a log that does not decode
\* and one that does has been handed on, and all events have been sent.
C13_Witness ==
    /\ nyielded >= 2
    /\ iter = <<>>
    /\ \E i \in 1..nyielded : futs[i].logs = <<Junk, Ev(2)>>
    /\ Len(published) >= 2

\* A retry() of the scanner has given up.
CeilingExceeded ==
    spc = "Panicked" \/ \E i \in 1..Len(futs) : futs[i].st = "Err"

\* A failed call below the ceiling doubles the backoff and leaves the query
\* pending and the process running; a query is given up only with a backoff
\* above the limit (the scanner panics on a height query given up or on
\* the log query of the oldest window being given up).
RetryDoubles ==
    [][/\ (spc = "GetBlockNumber" /\ spc' = "GetBlockNumber"
              /\ tip_backoff' # tip_backoff)
          => /\ tip_backoff' = 2 * tip_backoff
             /\ tip_backoff <= RetryLimit
             /\ proc' = "Running"
       /\ (spc = "GetBlockNumber" /\ spc' = "Panicked")
          => \/ tip_backoff > RetryLimit
             \/ nyielded < Len(futs) /\ futs'[nyielded + 1].st = "Err"
       /\ \A i \in 1..Len(futs) :
            /\ futs'[i].backoff # futs[i].backoff
               => /\ futs'[i].backoff = 2 * futs[i].backoff
                  /\ futs[i].backoff <= RetryLimit
                  /\ futs'[i].st = "Pending"
                  /\ proc' = "Running"
            /\ (futs[i].st = "Pending" /\ futs'[i].st = "Err")
               => futs[i].backoff > RetryLimit]_vars

RECURSIVE RootsInWindowOrder(_)
RootsInWindowOrder(n) ==
    IF n = 0 THEN <<>>
    ELSE RootsInWindowOrder(n - 1) \o ConfirmedRoots(futs[n].logs)

\* C20 (emission order under concurrent queries): in whatever order the
\* queries complete, the roots sent, followed by those of the current
\* window still to send, are those of the windows handed on so far, in
\* window order and within a window in log order; and the windows handed
\* on are the oldest ones.
C20_WindowOrder ==
    /\ nyielded <= Len(futs)
    /\ published \o IterRoots = RootsInWindowOrder(nyielded)

\* C20 witness: the second window's query completed before the first
\* one's, with the buffer full; both windows have been sent.
C20_Witness ==
    /\ nyielded >= 2
    /\ futs[2].at < futs[1].at
    /\ futs[1].logs = <<Ev(1), Ev(2)>>
    /\ futs[2].logs = <<Junk, Ev(2)>>
    /\ published = <<1, 2, 2>>

(***************************************************************************)
(* Claims about the scheduling of the scan, checked under SpecStream.      *)
(***************************************************************************)
\* C21 as stated (no look-ahead): block_stream advances the cursor and
\* yields the query of the next window only when every window yielded
\* before has been handed on and all its decoded events have been sent.
C21_NoLookAhead ==
    [][Len(futs') > Len(futs) => (nyielded = Len(futs) /\ iter = <<>>)]_vars

(***************************************************************************)
(* Claims about the cached tip, checked under SpecScan.                    *)
(***************************************************************************)
\* C22 as stated (known tip is monotonic): the cached known tip never
\* decreases, whatever heights the provider returns.
C22_KnownTipMonotonic == [][latest' >= latest]_vars

\* C22 amended: the known tip is the height the provider returned last (a
\* newly returned height is stored as it is, and the tip changes only to a
\* returned height); it decreases only when the provider has returned a
\* height below one it returned before, so it never decreases as long as
\* the provider's heights do not.
C22_TipFollowsProvider ==
    /\ [][tipsSeen' # tipsSeen => latest' \in tipsSeen' \ tipsSeen]_vars
    /\ [][latest' # latest => latest' \in tipsSeen']_vars
    /\ [][latest' < latest => \E h \in tipsSeen : h > latest']_vars

\* C22 witness: the provider has returned three different heights, the
\* last of them lower than an earlier one, and ranges were yielded.
C22_Witness ==
    /\ Cardinality(tipsSeen) >= 3
    /\ \E h \in tipsSeen : h > latest
    /\ latest \in tipsSeen
    /\ Len(emitted) >= 2

(***************************************************************************)
(* Claims about the start of run(), checked under Spec.                    *)
(***************************************************************************)
\* C23 as stated (subscription precedes publication): no root is published
\* while a worker has not yet subscribed, so that every worker subscribes
\* before the first root and no root is sent to a channel without receiver
\* before the workers subscribed.
C23_SubscriptionPrecedesPublication ==
    \A w \in workers :
        /\ wpc[w] = "Spawned" => published = <<>>
        /\ subAt[w] = 0

(***************************************************************************)
(* Claims about the telemetry of the scan, checked under SpecStream.       *)
(***************************************************************************)
\* C28 as stated (last-scanned gauge): when the log query of a range
\* succeeds, the last_synced_block gauge holds the toBlock of that range;
\* and the value of the gauge never decreases.
C28_GaugeLastScanned ==
    /\ [][\A i \in 1..Len(futs) :
            (futs[i].st = "Pending" /\ futs'[i].st = "Ok")
                => gauge' = emitted[i].toBlock]_vars
    /\ [][gauge' >= gauge]_vars

(***************************************************************************)
(* Claims about decode failures, checked under SpecStream.                 *)
(***************************************************************************)
\* The logs of a query result without those that do not decode.
WithoutJunk(logs) == SelectSeq(logs, LAMBDA l : l.decodes)

\* How many logs of the first n windows decode.
RECURSIVE DecodableCount(_)
DecodableCount(n) ==
    IF n = 0 THEN 0
    ELSE DecodableCount(n - 1) + Len(WithoutJunk(futs[n].logs))

\* C26 (undecodable logs are dropped without effect): when a window is
\* handed on, the events to send are exactly those the query would have
\* given had it not returned the logs that fail to decode, one per decoding
\* log and in the same order, and the scanner keeps running; the roots sent
\* or about to be sent are as many as the decoding logs handed on, so a
\* failing log is never published.
C26_UndecodableDropped ==
    /\ [][nyielded' = nyielded + 1 =>
            LET logs == futs'[nyielded'].logs IN
            /\ iter' = DecodeLogs(WithoutJunk(logs))
            /\ Len(iter') = Cardinality({k \in 1..Len(logs) : logs[k].decodes})
            /\ \A k \in 1..Len(iter') : iter'[k].postRoot # Junk.postRoot
            /\ proc' = "Running"
            /\ spc' # "Panicked"]_vars
    /\ [](Len(published) + Len(iter) = DecodableCount(nyielded))

\* C26 witness: the first window's query returned a log that does not
\* decode before one that does; the latter's root was sent, and the
\* scanner went on to hand on and send a later window.
C26_Witness ==
    /\ nyielded >= 2
    /\ futs[1].logs = <<Junk, Ev(2)>>
    /\ futs[2].logs = <<Ev(1), Ev(2)>>
    /\ published = <<2, 1, 2>>
    /\ proc = "Running"

(***************************************************************************)
(* Claims about needless propagation, checked under Spec.                  *)
(***************************************************************************)
\* C29 as stated (no needless propagation): a worker issues a
\* propagate_root() call only while the root its destination stores differs
\* from the current root of the canonical chain; in particular a root
\* published earlier and received after a propagation has brought the
\* destination to the current root causes no call, and neither does a
\* retry after the destination has caught up.
C29_NoNeedlessPropagation ==
    [][\A w \in workers : calls'[w] > calls[w] => destRoot[w] # l1Root]_vars

(***************************************************************************)
(* The signers (relay/signer.rs): propagate_root() step by step.  The      *)
(* call a worker awaits at relay/mod.rs:81 or :90 is identified by the     *)
(* number of the root received and of the call made for it.  Durations are *)
(* in seconds; a status request takes up to MaxLatency seconds; a run sees  *)
(* up to MaxEventsSigner root changes.                                     *)
(***************************************************************************)
MaxLatency == 1
MaxEventsSigner == 1

\* let timeout = std::time::Duration::from_secs(120);
TxSitterTimeout == 120

\* let backoff = std::time::Duration::from_secs(12);
TxSitterBackoff == 12

SignerKinds == {"AlloySigner", "TxSitterSigner"}

\* Some(TxStatus::Mined) | Some(TxStatus::Finalized)
IsMined(status) == status \in {"Mined", "Finalized"}

\* if start.elapsed() > timeout
TimedOut_Early(elapsed) == elapsed >= TxSitterBackoff
TimedOut(elapsed) == elapsed > TxSitterTimeout

\* match transport.get_receipt().await { .. Err(e) => error!(..) } Ok(())
AfterReceiptErr_Fails == "Err"
AfterReceiptErr == "Ok"

\* The worker is inside propagate_root().await.
Calling(w) == wpc[w] \in {"Propagate", "Retry"}

CallId(w) == <<Len(rcvd[w]), calls[w]>>

\* The call the worker awaits has returned res.
Returns(w, res) ==
    /\ Calling(w)
    /\ sgn[w].for = CallId(w)
    /\ sgn[w].pc = res

\* The transaction the current call submitted: the newest one.
CurrentTx(w) == txs[w][Len(txs[w])]

\* The signer step leaves everything but sgn and txs alone.
SignerFrame ==
    UNCHANGED <<scanVars, chanVars, workerVars, destVars, streamVars,
                sysVars, runVars, gauge, call>>

\* propagate_root() is called: the request is built and sent.
PropagateRootCalled(w) ==
    /\ Calling(w)
    /\ sgn[w].for # CallId(w)
    /\ sgn' = [sgn EXCEPT ![w] = [NewSigner(@.kind) EXCEPT
                                     !.pc = "Send", !.for = CallId(w)]]
    /\ UNCHANGED txs
    /\ SignerFrame

\* TxSitterSigner: self.tx_sitter.send_tx(&send_tx).await returns Ok(resp);
\* the relay service now holds a new transaction; start = Instant::now().
SendTxOk(w) ==
    /\ sgn[w].kind = "TxSitterSigner"
    /\ sgn[w].pc = "Send"
    /\ txs' = [txs EXCEPT ![w] = Append(@, "Pending")]
    /\ sgn' = [sgn EXCEPT ![w] = [@ EXCEPT !.pc = "GetTx", !.sent = @ + 1]]
    /\ SignerFrame

\* send_tx returns Err: map_err(..)? returns it from propagate_root().
SendTxErr(w) ==
    /\ sgn[w].kind = "TxSitterSigner"
    /\ sgn[w].pc = "Send"
    /\ CanFail
    /\ sgn' = [sgn EXCEPT ![w] = [@ EXCEPT !.pc = "Err", !.err = "send"]]
    /\ UNCHANGED txs
    /\ SignerFrame

\* One turn of the loop: get_tx(&resp.tx_id) returns the status after lat
\* seconds; Mined or Finalized breaks and Ok(()) is returned; otherwise the
\* timeout is checked, and the thread sleeps if it has not elapsed.
GetTxOk(w, lat) ==
    /\ sgn[w].kind = "TxSitterSigner"
    /\ sgn[w].pc = "GetTx"
    /\ LET now == sgn[w].elapsed + lat IN
          sgn' = [sgn EXCEPT ![w] =
                    [@ EXCEPT !.polls = @ + 1,
                              !.elapsed = now,
                              !.pc = IF IsMined(CurrentTx(w)) THEN "Ok"
                                     ELSE IF TimedOut(now) THEN "Err"
                                     ELSE "Sleep",
                              !.err = IF ~IsMined(CurrentTx(w)) /\ TimedOut(now)
                                         THEN "timeout" ELSE "none"]]
    /\ UNCHANGED txs
    /\ SignerFrame

\* get_tx returns Err: map_err(..)? returns it from propagate_root().
GetTxErr(w) ==
    /\ sgn[w].kind = "TxSitterSigner"
    /\ sgn[w].pc = "GetTx"
    /\ CanFail
    /\ sgn' = [sgn EXCEPT ![w] = [@ EXCEPT !.polls = @ + 1, !.pc = "Err",
                                           !.err = "poll"]]
    /\ UNCHANGED txs
    /\ SignerFrame

\* std::thread::sleep(backoff) returns; the loop polls again.
SitterSleepDone(w) ==
    /\ sgn[w].kind = "TxSitterSigner"
    /\ sgn[w].pc = "Sleep"
    /\ sgn' = [sgn EXCEPT ![w] = [@ EXCEPT !.pc = "GetTx",
                                           !.elapsed = @ + TxSitterBackoff]]
    /\ UNCHANGED txs
    /\ SignerFrame

\* AlloySigner: state_bridge_instance.propagateRoot().send().await returns
\* Ok: the transaction is in the mempool and get_receipt() is awaited.
AlloySendOk(w) ==
    /\ sgn[w].kind = "AlloySigner"
    /\ sgn[w].pc = "Send"
    /\ txs' = [txs EXCEPT ![w] = Append(@, "Pending")]
    /\ sgn' = [sgn EXCEPT ![w] = [@ EXCEPT !.pc = "Receipt", !.sent = @ + 1]]
    /\ SignerFrame

\* send() returns Err: `?` returns it from propagate_root().
AlloySendErr(w) ==
    /\ sgn[w].kind = "AlloySigner"
    /\ sgn[w].pc = "Send"
    /\ CanFail
    /\ sgn' = [sgn EXCEPT ![w] = [@ EXCEPT !.pc = "Err", !.err = "send"]]
    /\ UNCHANGED txs
    /\ SignerFrame

\* get_receipt() returns Ok(receipt) once the transaction is mined.
GetReceiptOk(w) ==
    /\ sgn[w].kind = "AlloySigner"
    /\ sgn[w].pc = "Receipt"
    /\ IsMined(CurrentTx(w))
    /\ sgn' = [sgn EXCEPT ![w] = [@ EXCEPT !.pc = "Ok"]]
    /\ UNCHANGED txs
    /\ SignerFrame

\* get_receipt() returns Err: the error is logged.
GetReceiptErr(w) ==
    /\ sgn[w].kind = "AlloySigner"
    /\ sgn[w].pc = "Receipt"
    /\ sgn' = [sgn EXCEPT ![w] = [@ EXCEPT !.pc = AfterReceiptErr,
                                           !.err = "receipt"]]
    /\ UNCHANGED txs
    /\ SignerFrame

\* The canonical chain includes the k-th transaction of w's signer:
\* propagateRoot() runs and sends the chain's latest root over the bridge.
TxMined(w, k) ==
    /\ txs[w][k] = "Pending"
    /\ txs' = [txs EXCEPT ![w][k] = "Mined"]
    /\ bridge' = [bridge EXCEPT ![w] = {l1Root}]
    /\ UNCHANGED <<sgn, scanVars, chanVars, workerVars, destRoot, stored,
                   streamVars, sysVars, runVars, gauge, call>>

\* The block of a mined transaction becomes final.
TxFinalized(w, k) ==
    /\ txs[w][k] = "Mined"
    /\ txs' = [txs EXCEPT ![w][k] = "Finalized"]
    /\ UNCHANGED sgn
    /\ SignerFrame

\* run() with one bridged network and either signer: every propagate_root()
\* call of the worker is carried out by the signer, whose result the worker
\* matches on; a transaction reaches the bridge when it is mined.
InitSigner ==
    \E kind \in SignerKinds :
        /\ ScannerIdle
        /\ StreamInit
        /\ SysInit(1)
        /\ RelayInitWith({1}, MaxSignerFailures, [w \in {1} |-> kind])

\* propagateRoot() takes no argument and neither signer reads the root: the
\* events of this specification all carry the same root, which differs from
\* the destinations' initial root 0.
NextSigner ==
    \/ \E r \in {1} : TreeChangedWithin(r, MaxEventsSigner)
    \/ Publish
    \/ \E w \in workers : Subscribe(w)
    \/ \E w \in workers : Recv(w)
    \/ \E w \in workers : LatestRootOk(w)
    \/ \E w \in workers : LatestRootErr(w)
    \/ \E w \in workers : PropagateRootCalled(w)
    \/ \E w \in workers : SendTxOk(w)
    \/ \E w \in workers : SendTxErr(w)
    \/ \E w \in workers, lat \in 0..MaxLatency : GetTxOk(w, lat)
    \/ \E w \in workers : GetTxErr(w)
    \/ \E w \in workers : SitterSleepDone(w)
    \/ \E w \in workers : AlloySendOk(w)
    \/ \E w \in workers : AlloySendErr(w)
    \/ \E w \in workers : GetReceiptOk(w)
    \/ \E w \in workers : GetReceiptErr(w)
    \/ \E w \in workers : \E k \in 1..Len(txs[w]) : TxMined(w, k)
    \/ \E w \in workers : \E k \in 1..Len(txs[w]) : TxFinalized(w, k)
    \/ \E w \in workers : Returns(w, "Ok") /\ PropagateOk(w, FALSE)
    \/ \E w \in workers : Returns(w, "Err") /\ PropagateErr(w, FALSE)
    \/ \E w \in workers : Returns(w, "Ok") /\ RetryOk(w, FALSE)
    \/ \E w \in workers : Returns(w, "Err") /\ RetryErr(w, FALSE)
    \/ \E w \in workers : RetrySleepDone(w)
    \/ \E w \in workers : CooldownDone(w)
    \/ \E w \in workers : Derive(w)

SpecSigner == InitSigner /\ [][NextSigner]_vars

(***************************************************************************)
(* Claims about the signers, checked under SpecSigner.                     *)
(***************************************************************************)
\* The most status polls one call can make: those before the timeout has
\* elapsed, one every TxSitterBackoff seconds from second 0 on, and the one
\* after which it has.
MaxPolls == TxSitterTimeout \div TxSitterBackoff + 2

\* A status poll of w's signer is answered in this step.
PollAnswered(w) ==
    /\ sgn[w].pc = "GetTx"
    /\ sgn'[w].polls = sgn[w].polls + 1
    /\ sgn'[w].err # "poll"

\* C24 (DelegatedRelay status polling): once the relay service accepted the
\* transaction, propagate_root() returns Ok exactly on a status poll that
\* reports Mined or Finalized; it returns an error on an answered poll after
\* which more than the timeout has elapsed without such a status, and only
\* then or when a poll fails; it returns an error without any poll when the
\* send fails; and one call never makes more than MaxPolls polls.
C24_StatusPolling ==
    /\ [][\A w \in workers : sgn[w].kind = "TxSitterSigner" =>
            /\ (PollAnswered(w) /\ IsMined(CurrentTx(w)))
                  => sgn'[w].pc = "Ok"
            /\ (sgn[w].pc # "Ok" /\ sgn'[w].pc = "Ok")
                  => (PollAnswered(w) /\ IsMined(CurrentTx(w)))
            /\ (PollAnswered(w) /\ ~IsMined(CurrentTx(w)))
                  => IF sgn'[w].elapsed > TxSitterTimeout
                        THEN sgn'[w].pc = "Err" /\ sgn'[w].err = "timeout"
                        ELSE sgn'[w].pc = "Sleep"
            /\ (sgn[w].pc = "GetTx" /\ sgn'[w].pc = "Err")
                  => \/ sgn'[w].err = "poll"
                     \/ /\ sgn'[w].err = "timeout"
                        /\ sgn'[w].elapsed > TxSitterTimeout
                        /\ ~IsMined(CurrentTx(w))
            /\ (sgn[w].pc = "Send" /\ sgn'[w].pc # "Send")
                  => \/ sgn'[w].pc = "GetTx" /\ Len(txs'[w]) = Len(txs[w]) + 1
                     \/ /\ sgn'[w].pc = "Err"
                        /\ sgn'[w].err = "send"
                        /\ sgn'[w].polls = 0
                        /\ txs' = txs
            /\ (sgn[w].pc = "Sleep" /\ sgn'[w].pc # "Sleep")
                  => sgn'[w].pc = "GetTx"]_vars
    /\ [](\A w \in workers : sgn[w].polls <= MaxPolls)

\* C24 witness: a call of the delegated relay has polled MaxPolls times and
\* returned the timeout error, its transaction still pending.
C24_Witness ==
    \E w \in workers :
        /\ sgn[w].kind = "TxSitterSigner"
        /\ sgn[w].pc = "Err"
        /\ sgn[w].err = "timeout"
        /\ sgn[w].polls = MaxPolls
        /\ CurrentTx(w) = "Pending"

\* C25 (DirectWallet result): a call of AlloySigner::propagate_root()
\* returns an error exactly when the submission failed, and then nothing
\* was submitted; after a successful submission it returns Ok, whether the
\* receipt was fetched or fetching it failed; and a call submits at most
\* one transaction.
C25_DirectWalletResult ==
    /\ [][\A w \in workers : sgn[w].kind = "AlloySigner" =>
            /\ (sgn[w].pc = "Send" /\ sgn'[w].pc # "Send")
                  => \/ /\ sgn'[w].pc = "Err"
                        /\ sgn'[w].err = "send"
                        /\ txs' = txs
                     \/ /\ sgn'[w].pc = "Receipt"
                        /\ Len(txs'[w]) = Len(txs[w]) + 1
            /\ (sgn[w].pc = "Receipt" /\ sgn'[w].pc # "Receipt")
                  => sgn'[w].pc = "Ok" /\ Len(txs'[w]) = Len(txs[w])
            /\ Len(txs'[w]) > Len(txs[w]) => sgn[w].pc = "Send"]_vars
    /\ [](\A w \in workers : sgn[w].kind = "AlloySigner" =>
            /\ sgn[w].sent <= 1
            /\ sgn[w].pc \in {"Ok", "Err"} => (sgn[w].pc = "Err" <=> sgn[w].sent = 0))

\* C25 witness: a call of the direct wallet submitted its transaction,
\* failed to fetch the receipt and returned Ok, the transaction pending.
C25_Witness ==
    \E w \in workers :
        /\ sgn[w].kind = "AlloySigner"
        /\ sgn[w].pc = "Ok"
        /\ sgn[w].err = "receipt"
        /\ sgn[w].sent = 1
        /\ CurrentTx(w) = "Pending"

\* The transactions of w's signer that are neither mined nor finalized.
PendingTxs(w) == {k \in 1..Len(txs[w]) : txs[w][k] = "Pending"}

\* C30 as stated (at most one transaction in flight with the delegated
\* relay): a TxSitterSigner never has two transactions pending at the relay
\* service, so a new one is sent only when none sent earlier is pending.
C30_OneInFlight ==
    \A w \in workers :
        sgn[w].kind = "TxSitterSigner" => Cardinality(PendingTxs(w)) <= 1

(***************************************************************************)
(* run() up to its select! (main.rs:101-154) and init_relays.  A wallet is *)
(* "None", a "Mnemonic" (a phrase the builder accepts), a "BadMnemonic"    *)
(* (one it rejects) or a "TxSitter"; a Config has the wallet of the        *)
(* canonical network and up to MaxNetworks bridged networks.               *)
(***************************************************************************)
MaxNetworks == 2

Wallets == {"None", "Mnemonic", "BadMnemonic", "TxSitter"}

NetworkTypes == {"Evm", "Svm", "Scroll"}

Networks == [ty : NetworkTypes, wallet : Wallets]

Configs ==
    [wallet : Wallets,
     bridged : UNION {[1..n -> Networks] : n \in 0..MaxNetworks}]

\* let global_signer = ..: Some for a mnemonic wallet, None for any other
\* wallet and for none.
GlobalSigner_AnyWallet(wallet) == wallet # "None"
GlobalSigner(wallet) == wallet = "Mnemonic"

\* The closure of the map, for one bridged network: Ok(relayer) with the
\* variant of its signer, Err(..), or a panic on unimplemented!().
BuildRelay(net, global) ==
    IF net.ty # "Evm" THEN [kind |-> "Panic", signer |-> "none"]
    ELSE CASE net.wallet = "Mnemonic" ->
                [kind |-> "Ok", signer |-> "AlloySigner"]
           [] net.wallet = "BadMnemonic" ->
                [kind |-> "Err", signer |-> "none"]
           [] net.wallet = "TxSitter" ->
                [kind |-> "Ok", signer |-> "TxSitterSigner"]
           [] net.wallet = "None" ->
                IF global THEN [kind |-> "Ok", signer |-> "AlloySigner"]
                          ELSE [kind |-> "Err", signer |-> "none"]

\* .collect() into Result<Vec<Relayer>>: the networks are taken in order up
\* to the first Err, which is returned.
RECURSIVE CollectRelays(_, _)
CollectRelays(nets, global) ==
    IF nets = <<>> THEN [kind |-> "Ok", relayers |-> <<>>]
    ELSE LET first == BuildRelay(Head(nets), global) IN
         IF first.kind # "Ok" THEN [kind |-> first.kind, relayers |-> <<>>]
         ELSE LET rest == CollectRelays(Tail(nets), global) IN
              IF rest.kind # "Ok" THEN rest
              ELSE [kind |-> "Ok",
                    relayers |-> <<first.signer>> \o rest.relayers]

\* fn init_relays(cfg: Config) -> Result<Vec<Relayer>>
init_relays(c) ==
    IF c.wallet = "BadMnemonic" THEN [kind |-> "Err", relayers |-> <<>>]
    ELSE CollectRelays(c.bridged, GlobalSigner(c.wallet))

\* What run() awaits before init_relays, in order: provider.get_chain_id(),
\* provider.get_block_number(), BlockScanner::new (get_chain_id again).
NextRpc(at) ==
    CASE at = "GetChainId" -> "GetBlockNumber"
      [] at = "GetBlockNumber" -> "NewScanner"
      [] at = "NewScanner" -> "InitRelays"

StartupCalls == {"GetChainId", "GetBlockNumber", "NewScanner"}

\* One of the startup calls returns Ok.
StartupRpcOk ==
    /\ rpc \in StartupCalls
    /\ rpc' = NextRpc(rpc)
    /\ UNCHANGED <<cfg, signerVars, gauge, call, scanVars, relayVars,
                   streamVars, sysVars>>

\* One of them returns Err: `?` returns it from run(), and main() ends.
StartupRpcErr ==
    /\ rpc \in StartupCalls
    /\ rpc' = "RpcErr"
    /\ proc' = "Exited"
    /\ UNCHANGED <<cfg, signerVars, gauge, call, scanVars, relayVars,
                   streamVars, threads>>

\* let relayers = init_relays(config)?; and, when it is Ok, the spawn loop:
\* one task per relayer, after which run() reaches its select!.  An Err is
\* returned from run(); a panic unwinds main().
InitRelays ==
    /\ rpc = "InitRelays"
    /\ LET res == init_relays(cfg) IN
          IF res.kind = "Ok"
             THEN /\ rpc' = "Select"
                  /\ LET ws == 1..Len(res.relayers) IN
                        /\ workers' = ws
                        /\ failBudget' = 0
                        /\ wpc' = [w \in ws |-> "Spawned"]
                        /\ cursor' = [w \in ws |-> 1]
                        /\ subAt' = [w \in ws |-> 0]
                        /\ rcvd' = [w \in ws |-> <<>>]
                        /\ field' = [w \in ws |-> 0]
                        /\ dest_latest' = [w \in ws |-> 0]
                        /\ total_retries' = [w \in ws |-> 0]
                        /\ calls' = [w \in ws |-> 0]
                        /\ failures' = [w \in ws |-> 0]
                        /\ succeeded' = [w \in ws |-> FALSE]
                        /\ destRoot' = [w \in ws |-> 0]
                        /\ bridge' = [w \in ws |-> {}]
                        /\ stored' = [w \in ws |-> {0}]
                        /\ sgn' = [w \in ws |-> NewSigner(res.relayers[w])]
                        /\ txs' = [w \in ws |-> <<>>]
                  /\ UNCHANGED proc
             ELSE /\ rpc' = IF res.kind = "Err" THEN "InitErr" ELSE "Panicked"
                  /\ proc' = "Exited"
                  /\ UNCHANGED <<workerVars, destVars, signerVars>>
    /\ UNCHANGED <<cfg, gauge, call, scanVars, chanVars, streamVars,
                   threads>>

\* run() from its first line, with any Config.
InitStartup ==
    /\ cfg \in Configs
    /\ rpc = "GetChainId"
    /\ proc = "Running"
    /\ threads = 1
    /\ ScannerIdle
    /\ StreamInit
    /\ RelayIdle

NextStartup ==
    \/ StartupRpcOk
    \/ StartupRpcErr
    \/ InitRelays
    \/ \E r \in Roots : TreeChangedWithin(r, MaxEventsSigner)
    \/ rpc = "Select" /\ Publish
    \/ \E w \in workers : Subscribe(w)

SpecStartup == InitStartup /\ [][NextStartup]_vars

(***************************************************************************)
(* Claims about initialization, checked under SpecStartup.                 *)
(***************************************************************************)
\* A bridged network has no wallet of its own and there is no usable global
\* wallet (none, a TxSitter one, or a mnemonic the builder rejects).
Unsigned(c) ==
    /\ c.wallet # "Mnemonic"
    /\ \E k \in 1..Len(c.bridged) : c.bridged[k].wallet = "None"

\* A network of a type other than Evm comes, in the order of the list,
\* before every network whose signer cannot be built, and the global wallet
\* is not a rejected mnemonic.
PanicsFirst(c) ==
    /\ c.wallet # "BadMnemonic"
    /\ \E k \in 1..Len(c.bridged) :
          /\ c.bridged[k].ty # "Evm"
          /\ \A j \in 1..(k - 1) :
                /\ c.bridged[j].ty = "Evm"
                /\ \/ c.bridged[j].wallet \in {"Mnemonic", "TxSitter"}
                   \/ c.bridged[j].wallet = "None" /\ c.wallet = "Mnemonic"

HelperInit(c) ==
    /\ ScannerIdle
    /\ StreamStart
    /\ SysInit(1)
    /\ RelayIdle
    /\ call = c

\* A step of the helper leaves everything but `call` alone.
HelperFrame ==
    UNCHANGED <<scanVars, relayVars, streamVars, sysVars, runVars,
                signerVars, gauge>>

(***************************************************************************)
(* tx_sitter::monitor_tx(client, tx_id): poll the relay service for the    *)
(* status of one transaction.  Durations are in seconds.                   *)
(***************************************************************************)
\* const MAX_ATTEMPTS: usize = 100;
MAX_ATTEMPTS == 100

\* const ATTEMPT_SLEEP: Duration = Duration::from_secs(5);
ATTEMPT_SLEEP == 5

\* let mut num_attempts = 0; the transaction is pending at the relay
\* service when the call starts.  polls and slept are history: the status
\* requests made and the seconds slept.
NewMonitorTx ==
    [fn |-> "monitor_tx", pc |-> "GetTx", num_attempts |-> 0,
     status |-> "Pending", polls |-> 0, slept |-> 0, err |-> "none"]

\* if num_attempts >= MAX_ATTEMPTS { bail!(..) }
AttemptsUsed(n) == n >= MAX_ATTEMPTS

\* client.get_tx(tx_id) returns Ok(tx): Mined or Finalized returns Ok(());
\* any other status counts an attempt and either bails or sleeps.
MonitorGetTxOk ==
    /\ call.fn = "monitor_tx"
    /\ call.pc = "GetTx"
    /\ LET n == call.num_attempts + 1 IN
          call' = IF IsMined(call.status)
                     THEN [call EXCEPT !.polls = @ + 1, !.pc = "Ok"]
                     ELSE [call EXCEPT
                             !.polls = @ + 1,
                             !.num_attempts = n,
                             !.pc = IF AttemptsUsed(n) THEN "Err" ELSE "Sleep",
                             !.err = IF AttemptsUsed(n) THEN "attempts"
                                                        ELSE "none"]
    /\ HelperFrame

\* client.get_tx(tx_id) returns Err: map_err(..)? returns it from
\* monitor_tx.
MonitorGetTxErr ==
    /\ call.fn = "monitor_tx"
    /\ call.pc = "GetTx"
    /\ call' = [call EXCEPT !.polls = @ + 1, !.pc = "Err", !.err = "request"]
    /\ HelperFrame

\* tokio::time::sleep(ATTEMPT_SLEEP).await is over: the loop polls again.
MonitorSleepDone ==
    /\ call.fn = "monitor_tx"
    /\ call.pc = "Sleep"
    /\ call' = [call EXCEPT !.pc = "GetTx", !.slept = @ + ATTEMPT_SLEEP]
    /\ HelperFrame

\* The relay service sees the transaction mined, and later finalized.
MonitoredTxAdvances ==
    /\ call.fn = "monitor_tx"
    /\ call.status \in {"Pending", "Mined"}
    /\ call' = [call EXCEPT
                  !.status = IF @ = "Pending" THEN "Mined" ELSE "Finalized"]
    /\ HelperFrame

InitMonitor == HelperInit(NewMonitorTx)

NextMonitor ==
    \/ MonitorGetTxOk
    \/ MonitorGetTxErr
    \/ MonitorSleepDone
    \/ MonitoredTxAdvances

SpecMonitor == InitMonitor /\ [][NextMonitor]_vars

(***************************************************************************)
(* Claims about monitor_tx, checked under SpecMonitor.                     *)
(***************************************************************************)
\* C31 (monitor_tx error retry): a failed status request is retried after
\* ATTEMPT_SLEEP, so monitor_tx returns an error only once MAX_ATTEMPTS
\* attempts have been used; and it returns Ok as soon as a poll reports the
\* transaction mined or finalized.
C31_ErrorRetry ==
    /\ call.pc = "Err" => call.polls >= MAX_ATTEMPTS
    /\ call.pc = "Ok" => IsMined(call.status)

(***************************************************************************)
(* utils::retry(backoff, limit, f) as one call, for any initial backoff    *)
(* and limit.  A Duration is a bounded unsigned quantity and               *)
(* `backoff *= 2` panics when the product does not fit: small calls use    *)
(* durations of 0..MaxDuration units, MaxDuration standing for             *)
(* Duration::MAX.                                                          *)
(***************************************************************************)
MaxDuration == 15

\* The calls of f that are counted: the history `ncalls` stops counting
\* there, the loop does not stop.
MaxCalls == 12

\* limit: Option<Duration> is None.
NoLimit == 0 - 1

\* retry(Duration::from_millis(100), Some(Duration::from_secs(60)), ..),
\* the call block_stream makes, in milliseconds.  Its backoff stays far
\* below Duration::MAX, for which the width of the model's integers stands.
ScanRetry == [backoff |-> SCAN_RETRY_BACKOFF, limit |-> 60 * 1000,
              max |-> 2^30]

RetryArgs ==
    [backoff : 0..MaxDuration, limit : (0..MaxDuration) \cup {NoLimit},
     max : {MaxDuration}] \cup {ScanRetry}

\* mut backoff: Duration, limit: Option<Duration>; b keeps the argument,
\* ncalls counts the calls of f and slept lists the sleeps (history).
NewRetry(a) ==
    [fn |-> "retry", pc |-> "Call", backoff |-> a.backoff, limit |-> a.limit,
     max |-> a.max, b |-> a.backoff, ncalls |-> 0, slept |-> <<>>,
     last |-> "none"]

Counted(n) == IF n < MaxCalls THEN n + 1 ELSE n

\* Ok(res) => return Ok(res)
RetryFnOk ==
    /\ call.fn = "retry"
    /\ call.pc = "Call"
    /\ call' = [call EXCEPT !.ncalls = Counted(@), !.last = "Ok", !.pc = "Ok"]
    /\ HelperFrame

\* Err(e): with a limit that the backoff exceeds return Err(e), else sleep.
RetryFnErr ==
    /\ call.fn = "retry"
    /\ call.pc = "Call"
    /\ call' = [call EXCEPT
                  !.ncalls = Counted(@),
                  !.last = "Err",
                  !.pc = IF /\ call.limit # NoLimit
                            /\ RetryGivesUp(call.backoff, call.limit)
                            THEN "Err" ELSE "Sleep"]
    /\ HelperFrame

\* tokio::time::sleep(backoff).await is over; backoff *= 2 panics on
\* overflow, else the loop calls f again.
RetryFnSleepDone ==
    /\ call.fn = "retry"
    /\ call.pc = "Sleep"
    /\ LET doubled == NextBackoff(call.backoff)
           sleeps == IF Len(call.slept) < MaxCalls
                        THEN Append(call.slept, call.backoff)
                        ELSE call.slept
       IN  call' = IF doubled > call.max
                      THEN [call EXCEPT !.slept = sleeps, !.pc = "Panicked"]
                      ELSE [call EXCEPT !.slept = sleeps,
                                        !.backoff = doubled, !.pc = "Call"]
    /\ HelperFrame

InitRetryFn == \E a \in RetryArgs : HelperInit(NewRetry(a))

NextRetryFn ==
    \/ RetryFnOk
    \/ RetryFnErr
    \/ RetryFnSleepDone

\* Every call of f returns and every sleep ends.
SpecRetryFn == InitRetryFn /\ [][NextRetryFn]_vars /\ WF_vars(NextRetryFn)

(***************************************************************************)
(* Claims about retry(), checked under SpecRetryFn.                        *)
(***************************************************************************)
RECURSIVE LeastK(_, _, _)
\* The least k >= from with b * 2^k > L, for b > 0.
LeastK(b, L, from) ==
    IF b * 2^from > L THEN from ELSE LeastK(b, L, from + 1)

Limited == call.fn = "retry" /\ call.limit # NoLimit

Returned == call.pc \in {"Ok", "Err"}

\* The sleeps so far are b, 2b, 4b, .., none longer than the limit.
SleepsDouble ==
    \A i \in 1..Len(call.slept) :
        /\ call.slept[i] = call.b * 2^(i - 1)
        /\ call.slept[i] <= call.limit

\* C32 as stated (retry() result and bound): with a limit, retry returns Ok
\* with the first success, sleeps b, 2b, 4b, .. and never longer than L,
\* returns the last error after exactly K+1 calls, K the least k with
\* b*2^k > L, and always terminates.
C32_RetryBound ==
    /\ [](Limited =>
            /\ SleepsDouble
            /\ call.pc # "Panicked"
            /\ call.pc = "Ok" => call.last = "Ok"
            /\ call.pc = "Err" =>
                  /\ call.b > 0
                  /\ call.ncalls = LeastK(call.b, call.limit, 0) + 1)
    /\ <>(Limited => Returned)

\* C32 as amended: the same for b > 0 as long as b*2^K fits a Duration
\* (11 calls for b = 100 ms, L = 60 s); when it does not fit, the K-th
\* doubling of the backoff panics after K calls; and with b = 0 the error
\* is never returned, retry ends only with a success of f.
C32_RetryResult ==
    /\ [](Limited =>
            /\ SleepsDouble
            /\ call.pc = "Ok" => call.last = "Ok"
            /\ call.pc = "Err" =>
                  /\ call.b > 0
                  /\ call.last = "Err"
                  /\ call.ncalls = LeastK(call.b, call.limit, 0) + 1
                  /\ call.b * 2^(call.ncalls - 1) <= call.max
            /\ call.pc = "Panicked" =>
                  /\ call.b > 0
                  /\ call.ncalls = LeastK(call.b, call.limit, 0)
                  /\ call.b * 2^call.ncalls > call.max
            /\ (call.b = ScanRetry.backoff /\ call.limit = ScanRetry.limit
                  /\ call.pc = "Err") => call.ncalls = 11)
    /\ [][(Limited /\ (Returned \/ call.pc = "Panicked")) => call' = call]_vars
    /\ <>(Limited /\ call.b > 0 => Returned \/ call.pc = "Panicked")

C32_Witness ==
    /\ Limited
    /\ call.pc = "Err"
    /\ call.ncalls >= 3
    /\ Len(call.slept) = call.ncalls - 1

(***************************************************************************)
(* transaction::wait_for_tx_receipt(pending_tx, timeout, middleware), for  *)
(* any timeout of whole seconds.  Duration's subtraction panics when the   *)
(* result would be negative.                                               *)
(***************************************************************************)
\* pub const FIVE_SECONDS: Duration = Duration::from_secs(5);
FIVE_SECONDS == 5

MaxTimeout == 16

\* mut timeout: Duration; arg keeps the argument, polls counts the receipt
\* requests (history); the transaction has no receipt yet when the call
\* starts.
NewWaitForReceipt(t) ==
    [fn |-> "wait_for_tx_receipt", pc |-> "GetReceipt", timeout |-> t,
     arg |-> t, polls |-> 0, receipt |-> FALSE, err |-> "none"]

\* get_transaction_receipt(pending_tx).await? is Ok(Some(receipt)): the
\* loop ends and the function returns Ok(()).  Ok(None): the body runs.
WaitGetReceiptOk ==
    /\ call.fn = "wait_for_tx_receipt"
    /\ call.pc = "GetReceipt"
    /\ call' = [call EXCEPT !.polls = @ + 1,
                            !.pc = IF call.receipt THEN "Ok" ELSE "Sleep"]
    /\ HelperFrame

\* get_transaction_receipt(pending_tx).await? is Err: `?` returns it.
WaitGetReceiptErr ==
    /\ call.fn = "wait_for_tx_receipt"
    /\ call.pc = "GetReceipt"
    /\ call' = [call EXCEPT !.polls = @ + 1, !.pc = "Err", !.err = "request"]
    /\ HelperFrame

\* timeout -= FIVE_SECONDS
Underflows(timeout) == timeout < FIVE_SECONDS

\* tokio::time::sleep(FIVE_SECONDS).await is over; timeout -= FIVE_SECONDS
\* panics on underflow; if timeout.is_zero() the timed-out error is
\* returned, else the loop asks for the receipt again.
WaitSleepDone ==
    /\ call.fn = "wait_for_tx_receipt"
    /\ call.pc = "Sleep"
    /\ LET left == call.timeout - FIVE_SECONDS IN
          call' = IF Underflows(call.timeout)
                     THEN [call EXCEPT !.pc = "Panicked"]
                     ELSE [call EXCEPT
                             !.timeout = left,
                             !.pc = IF left = 0 THEN "Err" ELSE "GetReceipt",
                             !.err = IF left = 0 THEN "timeout" ELSE "none"]
    /\ HelperFrame

\* The transaction is included in a block: its receipt exists from now on.
ReceiptAppears ==
    /\ call.fn = "wait_for_tx_receipt"
    /\ ~call.receipt
    /\ call' = [call EXCEPT !.receipt = TRUE]
    /\ HelperFrame

InitWait == \E t \in 0..MaxTimeout : HelperInit(NewWaitForReceipt(t))

NextWait ==
    \/ WaitGetReceiptOk
    \/ WaitGetReceiptErr
    \/ WaitSleepDone
    \/ ReceiptAppears

SpecWait == InitWait /\ [][NextWait]_vars

(***************************************************************************)
(* Claims about wait_for_tx_receipt, checked under SpecWait.               *)
(***************************************************************************)
\* C33 (wait_for_tx_receipt timeout): for every timeout, 0 and values that
\* are no multiple of 5 s included, the call returns Ok as soon as a receipt
\* is present, else the timed-out error after a bounded number of 5-second
\* polls, and the subtraction from the remaining timeout never underflows.
C33_TimeoutNeverUnderflows ==
    /\ call.pc # "Panicked"
    /\ call.timeout >= 0
    /\ call.pc = "Ok" => call.receipt
    /\ call.polls <= call.arg \div FIVE_SECONDS + 1
    /\ (call.pc = "Err" /\ call.err = "timeout") =>
          call.polls * FIVE_SECONDS >= call.arg

====
